---- MODULE Spec2Model ----
(***************************************************************************)
(* PCA_Model of ims/pca.py: a wrapper that fits a PCA on a dataset, keeps  *)
(* the scores and the (descaled) loadings, and draws three charts through  *)
(* matplotlib's pyplot interface.                                          *)
(*                                                                         *)
(* Numbers.  Floating-point values are modelled exactly:                   *)
(*   - loadings, components and weights are rationals <<num, den>> in      *)
(*     lowest terms with den > 0;                                          *)
(*   - explained-variance ratios and the series derived from them are      *)
(*     fixed-point integers counting ten-thousandths (0.1235 is 1235, and  *)
(*     12.35 is 123500).                                                   *)
(* Column names f"PC {x}" are the tuples <<"PC", x>>.                      *)
(***************************************************************************)
EXTENDS Integers, Sequences, FiniteSets, TLC

\* ---------------------------------------------------------------- bounds
MaxSamples == 2
MaxFeatures == 3
MaxAxis == 2
MaxComp == 2
MaxCalls == 2

VARIABLES
    dataset,         \* the dataset handed to the constructor
    scaling_method,  \* the constructor's scaling_method argument
    kwargs,          \* the options forwarded to PCA(**kwargs)
    constructed,     \* TRUE once __init__ has returned
    ctor_err,        \* the exception __init__ ended with, "none" if none
    X,               \* self.X, the (scaled) feature matrix
    weights,         \* self.weights, the per-feature scaling weights
    pca,             \* self.pca, the fitted sklearn estimator
    pc,              \* self.pc, the score matrix
    loadings,        \* self.loadings
    plt,             \* pyplot's global state: the open figures and the current one
    ncalls,          \* number of plot calls made so far
    returned,        \* the successful plot calls, in order, each with the figure it returned
    last             \* the outcome of the latest plot call

model == <<dataset, scaling_method, X, weights, pca, pc, loadings>>
vars == <<dataset, scaling_method, kwargs, constructed, ctor_err, X, weights,
          pca, pc, loadings, plt, ncalls, returned, last>>

\* ------------------------------------------------------------ arithmetic
Abs(a) == IF a < 0 THEN -a ELSE a

Min(a, b) == IF a < b THEN a ELSE b

RECURSIVE GCD(_, _)
GCD(a, b) == IF b = 0 THEN a ELSE GCD(b, a % b)

\* the rational n/d in lowest terms (d # 0)
Rat(n, d) ==
    LET g == GCD(Abs(n), Abs(d))
        s == IF d < 0 THEN -1 ELSE 1
    IN  <<(s * n) \div g, (s * d) \div g>>

\* numpy's element-wise true division
RatDiv(a, b) == Rat(a[1] * b[2], a[2] * b[1])

\* Python list / numpy axis indexing with a 0-based index i on a sequence of
\* length n: the 1-based position, or 0 for an IndexError.  Negative indices
\* count from the end.
PyIndex(n, i) ==
    IF 0 <= i /\ i < n THEN i + 1
    ELSE IF -n <= i /\ i < 0 THEN n + i + 1
    ELSE 0

\* ------------------------------------------------------------ the inputs
ScalingMethods == {"None", "standard", "auto", "pareto", "var"}

\* a dataset of S spectra with F flattened features each, whose first
\* spectrum has R retention-time and D drift-time points
Dataset(S, F, R, D) ==
    [samples    |-> [s \in 1..S |-> s],
     labels     |-> [s \in 1..S |-> s % 2],
     data       |-> [s \in 1..S |-> [f \in 1..F |-> ((s + 2 * f) % 3) + 1]],
     ret_time   |-> [r \in 1..R |-> 10 * r],
     drift_time |-> [d \in 1..D |-> 3 * d]]

Datasets ==
    {Dataset(S, F, R, D) : S \in 1..MaxSamples, F \in 1..MaxFeatures,
                           R \in 1..MaxAxis, D \in 1..MaxAxis}

NSamples(ds) == Len(ds.data)
NFeatures(ds) == Len(ds.data[1])

\* PCA(**kwargs): n_components either absent or a requested count
Kwargs ==
    {[given |-> FALSE, n_components |-> 0]}
    \cup {[given |-> TRUE, n_components |-> k] : k \in 1..MaxComp}

\* ------------------------------------------------- BaseModel.__init__
\* BaseModel keeps the dataset and the scaling_method argument as given.
\* The scaling collaborator: the weight vector that goes with a scaling
\* method (none when no scaling is applied) ...
BaseWeights(ds, method) ==
    IF method = "None" THEN <<>>
    ELSE [f \in 1..NFeatures(ds) |->
            CASE method = "standard" -> Rat(1 + (f % 2), 1)
              [] method = "auto"     -> Rat(1 + (f % 3), 1)
              [] method = "pareto"   -> Rat(2, 1 + (f % 2))
              [] OTHER               -> Rat(3, 1 + (f % 3))]

\* ... and the scaled feature matrix
BaseX(ds, method) ==
    LET w == BaseWeights(ds, method)
    IN  [s \in 1..NSamples(ds) |->
            [f \in 1..NFeatures(ds) |->
                IF method = "None" THEN Rat(ds.data[s][f], 1)
                ELSE Rat(ds.data[s][f] * w[f][1], w[f][2])]]

\* ------------------------------------------------------ sklearn's PCA
\* Explained-variance ratios PCA can report for k components: non-negative,
\* in decreasing order, summing to at most 1 (10000 ten-thousandths).
EVRValues == {0, 1245, 7535}

RECURSIVE SeqSum(_)
SeqSum(s) == IF s = <<>> THEN 0 ELSE s[1] + SeqSum(Tail(s))

EVRs(k) ==
    {e \in [1..k -> EVRValues] :
        /\ \A i \in 1..(k - 1) : e[i] >= e[i + 1]
        /\ SeqSum(e) <= 10000}

\* PCA(**kwargs).fit(X): n_components_ is the requested count, or
\* min(samples, features) when none was requested; components_ has one row
\* per component and one column per feature.
PCAFit(x, kw, evr) ==
    LET S == Len(x)
        F == Len(x[1])
        k == IF kw.given THEN kw.n_components ELSE Min(S, F)
    IN  [n_components_ |-> k,
         components_ |->
            [i \in 1..k |-> [j \in 1..F |-> Rat(((2 * i + 3 * j) % 5) - 2, 1)]],
         explained_variance_ratio_ |-> evr]

\* n_components must lie in [1, min(samples, features)]
PCAFitOK(x, kw) == kw.given => kw.n_components <= Min(Len(x), Len(x[1]))

\* pca.transform(X): one row per sample, one column per component
PCATransform(p, x) ==
    [s \in 1..Len(x) |-> [c \in 1..p.n_components_ |-> ((s + 2 * c) % 4) - 1]]

\* ------------------------------------------------ PCA_Model.__init__
\* components_ / weights, broadcast over the rows
Descale_firstrow(components, w) ==
    <<[j \in 1..Len(w) |-> RatDiv(components[1][j], w[j])]>>

Descale(components, w) ==
    [i \in 1..Len(components) |->
        [j \in 1..Len(w) |-> RatDiv(components[i][j], w[j])]]

Loadings_nostandard(method, components, w) ==
    IF method # "None" THEN Descale(components, w) ELSE components

Loadings(method, components, w) ==
    IF method # "None" /\ method # "standard"
    THEN Descale(components, w)
    ELSE components

NoCall ==
    [op |-> "none", PC_x |-> 0, PC_y |-> 0, err |-> "none", at |-> "none",
     fig |-> 0, xlabel |-> <<>>, ylabel |-> <<>>, title |-> <<>>,
     image |-> <<>>, cumulative |-> <<>>, per_pc |-> <<>>]

InitWith(datasets, methods, kws) ==
    /\ dataset \in datasets
    /\ scaling_method \in methods
    /\ kwargs \in kws
    /\ constructed = FALSE
    /\ ctor_err = "none"
    /\ X = <<>>
    /\ weights = <<>>
    /\ pca = [n_components_ |-> 0, components_ |-> <<>>,
              explained_variance_ratio_ |-> <<>>]
    /\ pc = <<>>
    /\ loadings = <<>>
    /\ plt = [figs |-> <<>>, gcf |-> 0]
    /\ ncalls = 0
    /\ returned = <<>>
    /\ last = NoCall

Init == InitWith(Datasets, ScalingMethods, Kwargs)

Construct ==
    /\ ~constructed /\ ctor_err = "none"
    /\ PCAFitOK(BaseX(dataset, scaling_method), kwargs)
    /\ \E evr \in EVRs(IF kwargs.given THEN kwargs.n_components
                    ELSE Min(NSamples(dataset), NFeatures(dataset))) :
          LET x == BaseX(dataset, scaling_method)
              w == BaseWeights(dataset, scaling_method)
              p == PCAFit(x, kwargs, evr)
          IN  /\ X' = x
              /\ weights' = w
              /\ pca' = p
              /\ pc' = PCATransform(p, x)
              /\ loadings' = Loadings(scaling_method, p.components_, w)
    /\ constructed' = TRUE
    /\ UNCHANGED <<dataset, scaling_method, kwargs, ctor_err, plt, ncalls,
                   returned, last>>

\* the PCA routine rejects a component count above min(samples, features);
\* the exception leaves __init__ and no model exists
ConstructFail ==
    /\ ~constructed /\ ctor_err = "none"
    /\ ~PCAFitOK(BaseX(dataset, scaling_method), kwargs)
    /\ X' = BaseX(dataset, scaling_method)
    /\ weights' = BaseWeights(dataset, scaling_method)
    /\ ctor_err' = "ValueError"
    /\ UNCHANGED <<dataset, scaling_method, kwargs, constructed, pca, pc,
                   loadings, plt, ncalls, returned, last>>

\* ------------------------------------------------------------- pyplot
\* plt.subplots(): a new figure with the next free number, which becomes
\* the current figure
subplots_keepcurrent(p, call) ==
    LET num == Len(p.figs) + 1
    IN  [figs |-> Append(p.figs, [num |-> num, by |-> call, settings |-> {}]),
         gcf  |-> IF p.gcf = 0 THEN num ELSE p.gcf]

subplots(p, call) ==
    LET num == Len(p.figs) + 1
    IN  [figs |-> Append(p.figs, [num |-> num, by |-> call, settings |-> {}]),
         gcf  |-> num]

\* a setting made through an Axes object of figure num (ax.plot, ax.text, ...)
OnAxes(p, num, call, what) ==
    [p EXCEPT !.figs[num].settings = @ \cup {<<call, what>>}]

\* a setting made through pyplot (plt.xlabel, plt.legend, ...): it goes to
\* the current figure
OnCurrent(p, call, what) == OnAxes(p, p.gcf, call, what)

RECURSIVE OnCurrentAll(_, _, _)
OnCurrentAll(p, call, whats) ==
    IF whats = <<>> THEN p
    ELSE OnCurrentAll(OnCurrent(p, call, Head(whats)), call, Tail(whats))

\* ------------------------------------------------ PCA_Model.scatter_plot
\* round(v, 1) on a fixed-point value: to the nearest tenth, ties to even
Round1(v) ==
    LET q == v \div 1000
        r == v % 1000
    IN  IF r < 500 THEN 1000 * q
        ELSE IF r > 500 THEN 1000 * (q + 1)
        ELSE IF q % 2 = 0 THEN 1000 * q ELSE 1000 * (q + 1)

\* the loop of lines 76-78
ExplVar_unrounded(p) ==
    [i \in 1..p.n_components_ |-> p.explained_variance_ratio_[i] * 100]

ExplVar(p) ==
    [i \in 1..p.n_components_ |-> Round1(p.explained_variance_ratio_[i] * 100)]

\* the columns of pc_df: "PC 1" .. "PC n", then "Sample" and "Label"
PCColumns_onemore(p) == {<<"PC", x>> : x \in 1..(p.n_components_ + 1)}

PCColumns(p) == {<<"PC", x>> : x \in 1..p.n_components_}

DataFrameColumns(p) == PCColumns(p) \cup {<<"Sample">>, <<"Label">>}

\* hue="Label", style="Label": the defaults of the signature
DefaultKey == <<"Label">>

\* The whole call: the outcome record and pyplot's state after it.  The style
\* context of line 87 restores the rc settings when the block is left, by
\* return or by exception, and leaves nothing behind.  sns.scatterplot looks
\* x, y, hue and style up among the columns of pc_df and raises a value error
\* for a name that is not there.
ScatterPlotRun(PC_x, PC_y, hue, style, label, p0, call) ==
    LET expl_var == ExplVar(pca)
        columns  == DataFrameColumns(pca)
        p1  == subplots(p0, call)
        fig == p1.gcf
        out == [NoCall EXCEPT !.op = "scatter_plot", !.PC_x = PC_x, !.PC_y = PC_y]
        ix  == PyIndex(Len(expl_var), PC_x - 1)
        iy  == PyIndex(Len(expl_var), PC_y - 1)
    IN  IF ~({<<"PC", PC_x>>, <<"PC", PC_y>>, hue, style} \subseteq columns)
        THEN [out |-> [out EXCEPT !.err = "ValueError", !.at = "scatterplot"],
              plt |-> p1]
        ELSE
        LET p2 == OnCurrent(OnAxes(p1, fig, call, "scatter"), call, "legend")
        IN  IF ix = 0
            THEN [out |-> [out EXCEPT !.err = "IndexError", !.at = "expl_var"],
                  plt |-> p2]
            ELSE
            LET p3 == OnCurrent(p2, call, "xlabel")
            IN  IF iy = 0
                THEN [out |-> [out EXCEPT !.err = "IndexError", !.at = "expl_var",
                                          !.xlabel = <<PC_x, expl_var[ix]>>],
                      plt |-> p3]
                ELSE
                LET p4 == OnCurrent(p3, call, "ylabel")
                    p5 == IF label THEN OnAxes(p4, fig, call, "text") ELSE p4
                IN  [out |-> [out EXCEPT !.fig = fig,
                                          !.xlabel = <<PC_x, expl_var[ix]>>,
                                          !.ylabel = <<PC_y, expl_var[iy]>>],
                     plt |-> p5]

\* ----------------------------------------------- PCA_Model.loadings_plot
\* ndarray.reshape(a, b) needs a * b elements ...
Reshapable_atleast(v, a, b) == Len(v) >= a * b

Reshapable(v, a, b) == Len(v) = a * b

\* ... and lays them out row by row
Reshape(v, a, b) == [r \in 1..a |-> [d \in 1..b |-> v[(r - 1) * b + d]]]

\* lines 141-169: the heatmap, its colour bar, the relabelled ticks, the axis
\* labels and the title, each recorded on the figure it is applied to
LoadingsPlotDraw(PC, image, p0, call) ==
    LET p1  == subplots(p0, call)
        fig == p1.gcf
        p2  == OnCurrentAll(p1, call, <<"imshow", "colorbar", "xticks", "yticks">>)
        p3  == OnAxes(OnAxes(p2, fig, call, "x minor locator"), fig, call,
                      "y minor locator")
        p4  == OnCurrentAll(p3, call, <<"xlabel", "ylabel", "title">>)
    IN  [out |-> [NoCall EXCEPT !.op = "loadings_plot", !.PC_x = PC, !.fig = fig,
                                !.image = image, !.title = <<"PC", PC>>],
         plt |-> p4]

\* a loadings_plot that opens its figure before it selects and reshapes the row
LoadingsPlotRun_figurefirst(PC, p0, call) ==
    LET ret_time   == dataset.ret_time
        drift_time == dataset.drift_time
        row == PyIndex(Len(loadings), PC - 1)
        out == [NoCall EXCEPT !.op = "loadings_plot", !.PC_x = PC]
        p1  == subplots(p0, call)
    IN  IF row = 0
        THEN [out |-> [out EXCEPT !.err = "IndexError", !.at = "index"], plt |-> p1]
        ELSE IF ~Reshapable(loadings[row], Len(ret_time), Len(drift_time))
        THEN [out |-> [out EXCEPT !.err = "ValueError", !.at = "reshape"], plt |-> p1]
        ELSE LoadingsPlotDraw(PC, Reshape(loadings[row], Len(ret_time),
                                           Len(drift_time)), p0, call)

LoadingsPlotRun(PC, p0, call) ==
    LET ret_time   == dataset.ret_time
        drift_time == dataset.drift_time
        row == PyIndex(Len(loadings), PC - 1)
        out == [NoCall EXCEPT !.op = "loadings_plot", !.PC_x = PC]
    IN  IF row = 0
        THEN [out |-> [out EXCEPT !.err = "IndexError", !.at = "index"], plt |-> p0]
        ELSE IF ~Reshapable(loadings[row], Len(ret_time), Len(drift_time))
        THEN [out |-> [out EXCEPT !.err = "ValueError", !.at = "reshape"], plt |-> p0]
        ELSE LoadingsPlotDraw(PC, Reshape(loadings[row], Len(ret_time),
                                           Len(drift_time)), p0, call)

\* -------------------------------------------------- PCA_Model.scree_plot
\* np.cumsum: the running sums, in order
Cumsum_none(y) == y

Cumsum(y) ==
    LET RECURSIVE acc(_)
        acc(k) == IF k = 0 THEN 0 ELSE acc(k - 1) + y[k]
    IN  [k \in 1..Len(y) |-> acc(k)]

\* array * 100
Times100(y) == [k \in 1..Len(y) |-> y[k] * 100]

ScreePlotRun(p0, call) ==
    LET x   == [i \in 1..pca.n_components_ |-> i]
        y   == pca.explained_variance_ratio_
        p1  == subplots(p0, call)
        fig == p1.gcf
        p2  == OnAxes(OnAxes(p1, fig, call, "x major locator"), fig, call,
                      "y major locator")
        p3  == OnCurrentAll(p2, call, <<"xticks", "xlabel", "ylabel">>)
        p4  == OnAxes(OnAxes(p3, fig, call, "cumulative"), fig, call, "per PC")
        p5  == OnCurrent(p4, call, "legend")
    IN  [out |-> [NoCall EXCEPT !.op = "scree_plot", !.fig = fig,
                                !.cumulative = Times100(Cumsum(y)),
                                !.per_pc = Times100(y)],
         plt |-> p5]

\* ------------------------------------------------------------ the calls
\* what a finished call leaves behind; the model's own fields are only read
Finish(run) ==
    /\ plt' = run.plt
    /\ last' = run.out
    /\ ncalls' = ncalls + 1
    /\ returned' = IF run.out.err = "none"
                   THEN Append(returned, [call |-> ncalls + 1, fig |-> run.out.fig])
                   ELSE returned
    /\ UNCHANGED <<kwargs, constructed, ctor_err>>

ScatterPCs == 0..(MaxComp + 1)
LoadingsPCs == (-MaxComp)..(MaxComp + 1)

scatter_plot ==
    /\ constructed /\ ncalls < MaxCalls
    /\ \E PC_x \in ScatterPCs, PC_y \in ScatterPCs, label \in BOOLEAN :
          Finish(ScatterPlotRun(PC_x, PC_y, DefaultKey, DefaultKey, label, plt,
                                ncalls + 1))
    /\ UNCHANGED model

loadings_plot ==
    /\ constructed /\ ncalls < MaxCalls
    /\ \E PC \in LoadingsPCs : Finish(LoadingsPlotRun(PC, plt, ncalls + 1))
    /\ UNCHANGED model

\* a scree_plot that scales the ratios in place (y *= 100)
scree_plot_inplace ==
    /\ constructed /\ ncalls < MaxCalls
    /\ Finish(ScreePlotRun(plt, ncalls + 1))
    /\ pca' = [pca EXCEPT !.explained_variance_ratio_ = Times100(@)]
    /\ UNCHANGED <<dataset, scaling_method, X, weights, pc, loadings>>

scree_plot ==
    /\ constructed /\ ncalls < MaxCalls
    /\ Finish(ScreePlotRun(plt, ncalls + 1))
    /\ UNCHANGED model

NextInit == Construct \/ ConstructFail

Spec == Init /\ [][NextInit]_vars

\* plotting, over the datasets of one sample count and one scaling method
PlotInit ==
    InitWith({ds \in Datasets : NSamples(ds) = MaxSamples}, {"auto"},
             {kw \in Kwargs : kw.given})

PlotNext == Construct \/ ConstructFail \/ scatter_plot \/ loadings_plot \/ scree_plot

PlotSpec == PlotInit /\ [][PlotNext]_vars

\* ============================================================== claims
n_components_ == pca.n_components_
evr == pca.explained_variance_ratio_

\* a * b = c on rationals
RatTimesIs(a, b, c) == a[1] * b[1] * c[2] = c[1] * a[2] * b[2]

\* C1: after construction the stored loadings are the raw component vectors
\* divided element-wise by the weight vector when the scaling method is
\* neither none nor 'standard', and the raw component vectors unchanged when
\* it is none or 'standard'.
C1_LoadingsDescaled ==
    constructed =>
        IF scaling_method \notin {"None", "standard"}
        THEN /\ Len(loadings) = Len(pca.components_)
             /\ \A i \in 1..Len(loadings) :
                  /\ Len(loadings[i]) = Len(pca.components_[i])
                  /\ \A j \in 1..Len(loadings[i]) :
                       RatTimesIs(loadings[i][j], weights[j], pca.components_[i][j])
        ELSE loadings = pca.components_

C1_Witness ==
    /\ constructed
    /\ scaling_method = "pareto"
    /\ n_components_ = 2
    /\ \E i \in 1..Len(loadings) : \E j \in 1..Len(loadings[i]) :
          loadings[i][j] # pca.components_[i][j]

\* C2 as claimed: scatter_plot with PC_x or PC_y above the number of fitted
\* components raises an index error, from the lookup of the explained-variance
\* entry and from no earlier step.
C2_ScatterIndexError ==
    (last.op = "scatter_plot" /\ (last.PC_x > n_components_ \/ last.PC_y > n_components_))
        => (last.err = "IndexError" /\ last.at = "expl_var")

\* C2 as amended: scatter_plot with PC_x or PC_y above the number of fitted
\* components fails in the scatter plot's lookup of the missing score column
\* "PC <index>", with a value error, before the explained-variance lookup and
\* after the call's figure was created.
C2_ScatterMissingColumn ==
    (last.op = "scatter_plot" /\ (last.PC_x > n_components_ \/ last.PC_y > n_components_))
        => /\ last.err = "ValueError"
           /\ last.at = "scatterplot"
           /\ plt.figs[Len(plt.figs)].by = ncalls

C2_Witness ==
    /\ last.op = "scatter_plot"
    /\ last.PC_x = 1
    /\ last.PC_y = n_components_ + 1
    /\ last.err = "ValueError"

\* C3 as claimed: loadings_plot fails with an index error for every integer PC
\* outside [1, n], PC = 0 and negative PC included, and never returns a chart
\* of some other component.  Stated on the datasets whose loading vectors fit
\* the grid of the first spectrum, where the row lookup is the only step of
\* the call that can fail.
C3_LoadingsIndexError ==
    (/\ last.op = "loadings_plot"
     /\ last.PC_x \notin 1..n_components_
     /\ NFeatures(dataset) = Len(dataset.ret_time) * Len(dataset.drift_time))
        => (last.err = "IndexError" /\ last.fig = 0)

\* C4: for a valid PC, loadings_plot gets past the reshape exactly when the
\* selected loading vector has (retention-time points) x (drift-time points)
\* entries; with any other length it fails with a shape error.
C4_ReshapeIffLengthFits ==
    (last.op = "loadings_plot" /\ last.PC_x \in 1..n_components_) =>
        LET R == Len(dataset.ret_time)
            D == Len(dataset.drift_time)
        IN  IF Len(loadings[last.PC_x]) = R * D
            THEN /\ last.err = "none"
                 /\ Len(last.image) = R
                 /\ \A r \in 1..R : Len(last.image[r]) = D
            ELSE last.err = "ValueError" /\ last.at = "reshape"

C4_Witness ==
    /\ last.op = "loadings_plot"
    /\ last.PC_x \in 1..n_components_
    /\ last.err = "none"
    /\ Len(last.image) = 2
    /\ last.image[2][1] = loadings[last.PC_x][2]

\* C5: the cumulative series of scree_plot is non-decreasing, its k-th value
\* is 100 times the sum of the first k ratios, and its last value is 100
\* times the sum of all ratios.
C5_CumulativeSeries ==
    last.op = "scree_plot" =>
        LET c == last.cumulative
        IN  /\ Len(c) = n_components_
            /\ \A k \in 1..Len(c) : c[k] = 100 * SeqSum(SubSeq(evr, 1, k))
            /\ \A k \in 1..(Len(c) - 1) : c[k] <= c[k + 1]
            /\ c[Len(c)] = 100 * SeqSum(evr)

C5_Witness ==
    /\ last.op = "scree_plot"
    /\ Len(last.cumulative) = 2
    /\ last.cumulative[1] > 0
    /\ last.cumulative[2] > last.cumulative[1]

\* C6: for PC_x and PC_y in [1, n_components] the percentage in the X axis
\* label is round(explained_variance_ratio[PC_x-1] * 100, 1) and the one in
\* the Y axis label is round(explained_variance_ratio[PC_y-1] * 100, 1).
C6_AxisLabels ==
    (/\ last.op = "scatter_plot"
     /\ last.PC_x \in 1..n_components_
     /\ last.PC_y \in 1..n_components_) =>
        /\ last.err = "none"
        /\ last.xlabel = <<last.PC_x, Round1(evr[last.PC_x] * 100)>>
        /\ last.ylabel = <<last.PC_y, Round1(evr[last.PC_y] * 100)>>

C6_Witness ==
    /\ last.op = "scatter_plot"
    /\ last.err = "none"
    /\ last.PC_x = 2
    /\ last.PC_y = 1
    /\ last.xlabel[2] # last.ylabel[2]
    /\ last.xlabel[2] # evr[2] * 100

\* C7: once constructed, no plot call, successful or failing, changes the
\* model's fitted state (components, explained-variance ratios, scores,
\* loadings, dataset).
C7_ModelUnchanged == [][constructed => model' = model]_vars

C7_Witness ==
    /\ constructed
    /\ ncalls = 2
    /\ Len(returned) = 1
    /\ last.err # "none"

\* C8: after a successful construction on S samples and F features with k
\* requested components, pc has S rows and k columns and loadings has k rows
\* and F columns, whatever the scaling method.
C8_Shapes ==
    (constructed /\ kwargs.given) =>
        LET S == NSamples(dataset)
            F == NFeatures(dataset)
            k == kwargs.n_components
        IN  /\ Len(pc) = S
            /\ \A s \in 1..Len(pc) : Len(pc[s]) = k
            /\ Len(loadings) = k
            /\ \A i \in 1..Len(loadings) : Len(loadings[i]) = F

C8_Witness ==
    /\ constructed
    /\ scaling_method = "auto"
    /\ kwargs.given /\ kwargs.n_components = 2
    /\ NSamples(dataset) = 2
    /\ NFeatures(dataset) = 3
    /\ Len(loadings) = 2

\* C9: each successful plot call returns a figure no earlier call returned,
\* and every setting made during a call is on the figure that call returns.
C9_FreshFigurePerCall ==
    /\ \A i \in 1..Len(returned) : \A j \in 1..Len(returned) :
          i # j => returned[i].fig # returned[j].fig
    /\ \A i \in 1..Len(returned) :
          /\ returned[i].fig \in 1..Len(plt.figs)
          /\ plt.figs[returned[i].fig].by = returned[i].call
          /\ \E s \in plt.figs[returned[i].fig].settings : s[1] = returned[i].call
          /\ \A f \in 1..Len(plt.figs) : \A s \in plt.figs[f].settings :
                s[1] = returned[i].call => f = returned[i].fig

C9_Witness ==
    /\ Len(returned) = 2
    /\ Len(plt.figs) = 2
    /\ <<1, "legend">> \in plt.figs[returned[1].fig].settings
    /\ <<2, "title">> \in plt.figs[returned[2].fig].settings

\* C10: a loadings_plot call that fails on an out-of-range PC or on a reshape
\* length mismatch leaves pyplot's figures exactly as they were before it.
C10_FailedLoadingsNoFigure ==
    [][(ncalls' = ncalls + 1 /\ last'.op = "loadings_plot" /\ last'.err # "none")
         => plt' = plt]_vars

C10_Witness ==
    /\ last.op = "loadings_plot"
    /\ last.err = "ValueError"
    /\ ncalls = 2
    /\ Len(plt.figs) = 1

====
